---- MODULE Spec2Model ----
(***************************************************************************)
(* codotaku_logic: a logic-circuit simulator.  The model covers the        *)
(* circuit graph (nodes with a boolean payload, wires between pins), the   *)
(* recursive evaluator Graph::eval with its per-refresh HashMap cache, the *)
(* tick controller Graph::tick driven by a repeating bevy Timer, and the   *)
(* control panel of the ui system (pause, step, rate, payload checkboxes). *)
(*                                                                         *)
(* Time is counted in units of 10 ms (Second = 100 units).                 *)
(***************************************************************************)
EXTENDS Integers, Sequences, FiniteSets, TLC

VARIABLES nodes, wires, timer, ticks, cache, visits, status, last

vars == <<nodes, wires, timer, ticks, cache, visits, status, last>>

(***************************************************************************)
(* Bounds of the model.                                                    *)
(***************************************************************************)
\* The tick counter (a u64 in the code) is followed up to this value.
MaxTicks == 2
\* Number of nested eval frames after which the recursion is reported as
\* unbounded.  A pin is not re-entered by an evaluation that returns, and
\* the longest chain of distinct pins in a circuit of the catalogue has 6
\* pins (the latch), so an evaluation that returns nests at most 6 frames.
MaxDepth == 8
\* Time units per second.
Second == 100
\* Largest number of nodes and of wires the editor run builds.
MaxNodes == 2
MaxWires == 1

\* Upper end of the Hz slider.
SliderMax == 100

\* Frame times handed to the tick system (non-zero; the last one spans
\* several periods of the initial 0.1 s timer).
FrameDeltas == {5, 25}
\* Values the user drags the Hz slider to (rates whose period is a whole
\* number of time units, as every whole rate's period is in nanoseconds).
HzChoices == {0, 10, 100}

(***************************************************************************)
(* Data model: enum Node, pins and wires.                                  *)
(***************************************************************************)
UnaryKinds == {"Node", "Not"}
BinaryKinds == {"Nand", "And", "Or", "Xor", "Nor", "Xnor"}
Kinds == {"Input", "Output", "Clock"} \cup UnaryKinds \cup BinaryKinds

input_count(kind) ==
    CASE kind \in {"Input", "Clock"} -> 0
      [] kind \in {"Output"} \cup UnaryKinds -> 1
      [] OTHER -> 2

\* Every variant is given an output pin.
output_count_AllOne(kind) == 1

output_count(kind) == IF kind = "Output" THEN 0 ELSE 1

has_body(kind) == kind \in {"Input", "Output"}

InPinId(node, input) == [node |-> node, input |-> input]
OutPinId(node, output) == [node |-> node, output |-> output]
Wire(from, to, input) == [out_pin |-> OutPinId(from, 0), in_pin |-> InPinId(to, input)]

\* A node as the graph menu inserts it: the payload starts false.
NewNode(kind) == [kind |-> kind, value |-> FALSE]

Graph(ns, ws) == [nodes |-> ns, wires |-> ws]

\* Snarl::in_pin(pin).remotes: the nodes wired to the pin, in the iteration
\* order of the wire collection.
RECURSIVE Remotes(_, _)
Remotes(ws, in_pin) ==
    IF ws = <<>> THEN <<>>
    ELSE IF Head(ws).in_pin = in_pin
         THEN <<Head(ws).out_pin.node>> \o Remotes(Tail(ws), in_pin)
         ELSE Remotes(Tail(ws), in_pin)

\* Snarl::node_ids(): the live node ids in slab order.
RECURSIVE SortedIds(_)
SortedIds(S) ==
    IF S = {} THEN <<>>
    ELSE LET m == CHOOSE x \in S : \A y \in S : x <= y
         IN <<m>> \o SortedIds(S \ {m})

(***************************************************************************)
(* Graph::eval.  A result is [status, val, cache, visits]; status is "ok",  *)
(* or "overflow" when the recursion nests without bound, or "panic" when   *)
(* the unreachable!() or the unwrap() of the closure is hit.  visits       *)
(* counts, per input pin, how often the walk over the pin's remotes was    *)
(* started.                                                                *)
(***************************************************************************)
EmptyCache == [k \in {} |-> FALSE]

CacheInsert(c, key, v) == [k \in DOMAIN c \cup {key} |-> IF k = key THEN v ELSE c[k]]

Result(st, v, c, n) == [status |-> st, val |-> v, cache |-> c, visits |-> n]

NoVisits == [k \in {} |-> 0]

\* One more walk over the remotes of in_pin.
Visit(n, in_pin) ==
    [k \in DOMAIN n \cup {in_pin} |->
        IF k = in_pin THEN (IF in_pin \in DOMAIN n THEN n[in_pin] + 1 ELSE 1) ELSE n[k]]

\* Nand computed as And (the negation lost).
NandOp_AsAnd(a, b) == a /\ b

NandOp(a, b) == ~(a /\ b)
AndOp(a, b) == a /\ b
OrOp(a, b) == a \/ b
XorOp(a, b) == a # b
NorOp(a, b) == ~(a \/ b)
XnorOp(a, b) == ~(a # b)

BinaryOp(kind, a, b) ==
    CASE kind = "Nand" -> NandOp(a, b)
      [] kind = "And" -> AndOp(a, b)
      [] kind = "Or" -> OrOp(a, b)
      [] kind = "Xor" -> XorOp(a, b)
      [] kind = "Nor" -> NorOp(a, b)
      [] kind = "Xnor" -> XnorOp(a, b)

UnaryOp(kind, a) == IF kind = "Not" THEN ~a ELSE a

\* The Clock's phase inverted.
ClockValue_Odd(t) == t % 2 = 1

ClockValue(t) == t % 2 = 0

\* The cache lookup at the head of eval.
CacheHit(c, in_pin, t) == <<in_pin, t>> \in DOMAIN c

RECURSIVE eval(_, _, _, _, _, _)
RECURSIVE AnyRemote(_, _, _, _, _, _, _)
RECURSIVE RemoteValue(_, _, _, _, _, _)

\* The match on the remote's node inside the closure.
RemoteValue(g, node, t, c, n, depth) ==
    IF node \notin DOMAIN g.nodes THEN Result("panic", FALSE, c, n)
    ELSE LET nd == g.nodes[node] IN
      CASE nd.kind = "Input" -> Result("ok", nd.value, c, n)
        [] nd.kind = "Output" -> Result("panic", FALSE, c, n)
        [] nd.kind = "Clock" -> Result("ok", ClockValue(t), c, n)
        [] nd.kind \in UnaryKinds ->
             LET a == eval(g, InPinId(node, 0), t, c, n, depth + 1)
             IN IF a.status # "ok" THEN a
                ELSE Result("ok", UnaryOp(nd.kind, a.val), a.cache, a.visits)
        [] nd.kind \in BinaryKinds ->
             LET a == eval(g, InPinId(node, 0), t, c, n, depth + 1)
             IN IF a.status # "ok" THEN a
                ELSE LET b == eval(g, InPinId(node, 1), t, a.cache, a.visits, depth + 1)
                     IN IF b.status # "ok" THEN b
                        ELSE Result("ok", BinaryOp(nd.kind, a.val, b.val),
                                    b.cache, b.visits)

\* Only the first remote of the pin is looked at.
AnyRemote_FirstOnly(g, remotes, i, t, c, n, depth) ==
    IF i > Len(remotes) THEN Result("ok", FALSE, c, n)
    ELSE RemoteValue(g, remotes[i], t, c, n, depth)

\* remotes.iter().any(..): visits the remotes in order and stops at the
\* first one whose value is true.
AnyRemote(g, remotes, i, t, c, n, depth) ==
    IF i > Len(remotes) THEN Result("ok", FALSE, c, n)
    ELSE LET r == RemoteValue(g, remotes[i], t, c, n, depth)
         IN IF r.status # "ok" \/ r.val THEN r
            ELSE AnyRemote(g, remotes, i + 1, t, r.cache, r.visits, depth)

eval(g, in_pin, t, c, n, depth) ==
    IF CacheHit(c, in_pin, t) THEN Result("ok", c[<<in_pin, t>>], c, n)
    ELSE IF depth >= MaxDepth THEN Result("overflow", FALSE, c, n)
    ELSE LET r == AnyRemote(g, Remotes(g.wires, in_pin), 1, t, c, Visit(n, in_pin), depth)
         IN IF r.status # "ok" THEN r
            ELSE Result("ok", r.val, CacheInsert(r.cache, <<in_pin, t>>, r.val), r.visits)

(***************************************************************************)
(* Graph::tick: the timer, the fire condition and the refresh loop.        *)
(***************************************************************************)
OutputIds(ns) == SortedIds({id \in DOMAIN ns : ns[id].kind = "Output"})

\* The result is also stored in the boolean of the nodes driving the Output.
WriteOutput_Propagate(ns, node, result) ==
    [id \in DOMAIN ns |->
        IF id = node \/ \E i \in DOMAIN wires :
                           wires[i].in_pin.node = node /\ wires[i].out_pin.node = id
        THEN [ns[id] EXCEPT !.value = result]
        ELSE ns[id]]

\* The result is or-ed into the payload instead of replacing it.
WriteOutput_OrAssign(ns, node, result) ==
    [ns EXCEPT ![node].value = ns[node].value \/ result]

\* The value stored into an Output node after its pin was evaluated.
WriteOutput(ns, node, result) == [ns EXCEPT ![node].value = result]

RECURSIVE RefreshLoop(_, _, _, _, _, _)

\* The loop is left after the first Output.
RefreshLoop_StopsEarly(g, outputs, i, t, c, n) ==
    IF i > Len(outputs) \/ i > 1
    THEN [status |-> "ok", nodes |-> g.nodes, cache |-> c, visits |-> n]
    ELSE LET r == eval(g, InPinId(outputs[i], 0), t, c, n, 0)
         IN IF r.status # "ok"
            THEN [status |-> r.status, nodes |-> g.nodes, cache |-> r.cache,
                  visits |-> r.visits]
            ELSE RefreshLoop(Graph(WriteOutput(g.nodes, outputs[i], r.val), g.wires),
                             outputs, i + 1, t, r.cache, r.visits)

\* for node in outputs { eval; write }.  Result: [status, nodes, cache,
\* visits].
RefreshLoop(g, outputs, i, t, c, n) ==
    IF i > Len(outputs)
    THEN [status |-> "ok", nodes |-> g.nodes, cache |-> c, visits |-> n]
    ELSE LET r == eval(g, InPinId(outputs[i], 0), t, c, n, 0)
         IN IF r.status # "ok"
            THEN [status |-> r.status, nodes |-> g.nodes, cache |-> r.cache,
                  visits |-> r.visits]
            ELSE RefreshLoop(Graph(WriteOutput(g.nodes, outputs[i], r.val), g.wires),
                             outputs, i + 1, t, r.cache, r.visits)

\* The memo is kept from one refresh to the next and looked up by pin alone.
Refresh_StaleMemo(g, t) ==
    RefreshLoop(g, OutputIds(g.nodes), 1, t,
                [k \in {<<key[1], t>> : key \in DOMAIN cache} |->
                    cache[CHOOSE key \in DOMAIN cache : key[1] = k[1]]],
                NoVisits)

\* let mut cache = HashMap::new(); for node in outputs { .. }
Refresh(g, t) == RefreshLoop(g, OutputIds(g.nodes), 1, t, EmptyCache, NoVisits)

\* The timer accumulates whether paused or not.
TimerTick_IgnorePause(tm, dt) ==
    LET e == tm.elapsed + dt IN
    IF e >= tm.duration
    THEN [tm EXCEPT !.finished = TRUE,
                    !.elapsed = IF tm.duration = 0 THEN 0 ELSE e % tm.duration]
    ELSE [tm EXCEPT !.finished = FALSE, !.elapsed = e]

\* bevy Timer::tick of a repeating timer (its times_finished_this_tick
\* counter, which the program never reads, is left out).
TimerTick(tm, dt) ==
    IF tm.paused
    THEN [tm EXCEPT !.finished = FALSE]
    ELSE LET e == tm.elapsed + dt IN
         IF e >= tm.duration
         THEN [tm EXCEPT !.finished = TRUE,
                         !.elapsed = IF tm.duration = 0 THEN 0 ELSE e % tm.duration]
         ELSE [tm EXCEPT !.finished = FALSE, !.elapsed = e]

\* The refresh runs on every call.
Fires_IgnoreTimer(tm, dt) == TRUE

\* The condition of the if in Graph::tick.
Fires(tm, dt) == dt = 0 \/ tm.finished

\* The counter advanced twice by one fire.
NextTick_Twice(t) == t + 2

\* simulation.ticks += 1
NextTick(t) == t + 1

\* What the last step of the program was: the system or control that ran,
\* its argument (the dt handed to Graph::tick, the Hz the slider was set
\* to, 0 otherwise) and whether the tick fired.
Call(op, arg, fired) == [op |-> op, arg |-> arg, fired |-> fired]

\* Graph::tick(simulation, dt), called from `op` ("frame" or "step").
GraphTick(dt, op) ==
    LET tm == TimerTick(timer, dt) IN
    /\ timer' = tm
    /\ IF Fires(tm, dt)
       THEN /\ ticks < MaxTicks
            /\ ticks' = NextTick(ticks)
            /\ LET r == Refresh(Graph(nodes, wires), ticks')
               IN /\ nodes' = r.nodes
                  /\ cache' = r.cache
                  /\ visits' = r.visits
                  /\ status' = r.status
            /\ last' = Call(op, dt, TRUE)
       ELSE /\ UNCHANGED <<nodes, ticks, cache, visits, status>>
            /\ last' = Call(op, dt, FALSE)
    /\ UNCHANGED wires

(***************************************************************************)
(* The ui system's control panel.                                          *)
(***************************************************************************)
\* hz = 0 taken to mean "never": the longest period instead of period 0.
PeriodOf_ZeroIsNever(hz) == IF hz = 0 THEN 10 * Second ELSE Second \div hz

\* Duration::from_secs_f32(if hz == 0.0 { 0.0 } else { 1.0 / hz })
PeriodOf(hz) == IF hz = 0 THEN 0 ELSE Second \div hz

\* let mut hz = if duration == 0.0 { 0.0 } else { 1.0 / duration }, as the
\* integer slider clamped to 0..=100 shows it.
HzOf(duration) ==
    IF duration = 0 THEN 0
    ELSE LET hz == (2 * Second + duration) \div (2 * duration)
         IN IF hz > SliderMax THEN SliderMax ELSE hz

\* The else branch of `if paused`: the slider is shown and the duration
\* is set from its value (hz is the value the user drags it to, or -1
\* when the slider is not touched).
RateControl(tm, hz) ==
    IF tm.paused THEN tm
    ELSE [tm EXCEPT !.duration = PeriodOf(IF hz = -1 THEN HzOf(tm.duration) ELSE hz)]

\* The toggle restarts the timer.
TogglePause_Reset(tm) == [tm EXCEPT !.paused = ~tm.paused, !.elapsed = 0]

\* The "Paused" checkbox.
TogglePause(tm) == [tm EXCEPT !.paused = ~tm.paused]

(***************************************************************************)
(* Circuits the editor has built when the run starts.                      *)
(***************************************************************************)
Nodes(kinds) == [id \in 0 .. Len(kinds) - 1 |-> NewNode(kinds[id + 1])]

\* Two Inputs into one binary gate, observed by an Output.
BinaryCircuit(kind) ==
    Graph(Nodes(<<"Input", "Input", kind, "Output">>),
          <<Wire(0, 2, 0), Wire(1, 2, 1), Wire(2, 3, 0)>>)

\* One Input into a buffer or a Not, observed by an Output.
UnaryCircuit(kind) ==
    Graph(Nodes(<<"Input", kind, "Output">>), <<Wire(0, 1, 0), Wire(1, 2, 0)>>)

NotNotCircuit ==
    Graph(Nodes(<<"Input", "Not", "Not", "Output">>),
          <<Wire(0, 1, 0), Wire(1, 2, 0), Wire(2, 3, 0)>>)

\* A Clock observed by an Output, and an Output with no incoming wire.
ClockCircuit ==
    Graph(Nodes(<<"Clock", "Output", "Output">>), <<Wire(0, 1, 0)>>)

\* Two Inputs wired to the same pin of an Output.
FanInCircuit ==
    Graph(Nodes(<<"Input", "Input", "Output">>), <<Wire(0, 2, 0), Wire(1, 2, 0)>>)

\* Shared sub-circuit: And feeds Xor and Nor, Xor feeds Nor and an Output.
SharedCircuit ==
    Graph(Nodes(<<"Input", "Input", "Clock", "And", "Xor", "Nor", "Output", "Output">>),
          <<Wire(0, 3, 0), Wire(1, 3, 1), Wire(3, 4, 0), Wire(2, 4, 1),
            Wire(3, 5, 0), Wire(4, 5, 1), Wire(5, 6, 0), Wire(4, 7, 0)>>)

\* Cross-coupled Nand pair: Nand_A (2) = S, Nand_B; Nand_B (3) = R, Nand_A.
LatchCircuit ==
    Graph(Nodes(<<"Input", "Input", "Nand", "Nand", "Output", "Output">>),
          <<Wire(0, 2, 0), Wire(3, 2, 1), Wire(1, 3, 0), Wire(2, 3, 1),
            Wire(2, 4, 0), Wire(3, 5, 0)>>)

\* A buffer fed by an Input and by its own output; the two wire orders.
LoopCircuitA ==
    Graph(Nodes(<<"Input", "Node", "Output">>),
          <<Wire(0, 1, 0), Wire(1, 1, 0), Wire(1, 2, 0)>>)

LoopCircuitB ==
    Graph(Nodes(<<"Input", "Node", "Output">>),
          <<Wire(1, 1, 0), Wire(0, 1, 0), Wire(1, 2, 0)>>)

Circuits ==
    {BinaryCircuit(k) : k \in BinaryKinds} \cup {UnaryCircuit(k) : k \in UnaryKinds}
    \cup {NotNotCircuit, ClockCircuit, FanInCircuit, SharedCircuit, LatchCircuit,
          LoopCircuitA, LoopCircuitB}

(***************************************************************************)
(* The state machine.                                                      *)
(***************************************************************************)
\* setup(): Timer::from_seconds(0.1, Repeating), ticks: 0.
InitTimer ==
    [duration |-> Second \div 10, elapsed |-> 0, paused |-> FALSE, finished |-> FALSE]

Init ==
    /\ \E g \in Circuits : nodes = g.nodes /\ wires = g.wires
    /\ timer = InitTimer
    /\ ticks = 0
    /\ cache = EmptyCache
    /\ visits = NoVisits
    /\ status = "ok"
    /\ last = Call("init", 0, FALSE)

\* The tick system: graph.tick(&mut simulation, time.delta()).
Frame ==
    /\ status = "ok"
    /\ \E dt \in FrameDeltas : GraphTick(dt, "frame")

\* ui: the "Step" button, shown while paused.
UiStep ==
    /\ status = "ok"
    /\ timer.paused
    /\ GraphTick(0, "step")

\* ui: the "Paused" checkbox is clicked.
UiTogglePause ==
    /\ status = "ok"
    /\ timer' = RateControl(TogglePause(timer), -1)
    /\ last' = Call("pause", 0, FALSE)
    /\ UNCHANGED <<nodes, wires, ticks, cache, visits, status>>

\* ui: the Hz slider is dragged, shown while running.
UiSetHz ==
    /\ status = "ok"
    /\ ~timer.paused
    /\ \E hz \in HzChoices :
         /\ timer' = RateControl(timer, hz)
         /\ last' = Call("rate", hz, FALSE)
    /\ UNCHANGED <<nodes, wires, ticks, cache, visits, status>>

\* ui: Node::show_body, the checkbox of an Input or Output node is clicked.
UiToggleBody ==
    /\ status = "ok"
    /\ \E id \in DOMAIN nodes :
         /\ has_body(nodes[id].kind)
         /\ nodes' = [nodes EXCEPT ![id].value = ~nodes[id].value]
    /\ timer' = RateControl(timer, -1)
    /\ last' = Call("body", 0, FALSE)
    /\ UNCHANGED <<wires, ticks, cache, visits, status>>

Next == Frame \/ UiStep \/ UiTogglePause \/ UiSetHz \/ UiToggleBody

Spec == Init /\ [][Next]_vars

(***************************************************************************)
(* The graph editor: the run that starts from the empty graph of setup()   *)
(* and builds the circuit by inserting and removing nodes and wires.       *)
(***************************************************************************)
\* Variants picked from the graph menu: one of each pin layout.
MenuKinds == {"Input", "Output", "Not", "Nand"}

NodeIds == 0 .. MaxNodes - 1

\* The handle given to an inserted node: a vacant slot of the slab.
VacantId(ns) == CHOOSE id \in NodeIds \ DOMAIN ns : \A other \in NodeIds \ DOMAIN ns : id <= other

\* The wires with w added somewhere in the collection's iteration order.
InsertWire(ws, w, at) ==
    [i \in 1 .. Len(ws) + 1 |->
        IF i < at THEN ws[i] ELSE IF i = at THEN w ELSE ws[i - 1]]

RECURSIVE DropWires(_, _)
\* The wires without those that touch node id.
DropWires(ws, id) ==
    IF ws = <<>> THEN <<>>
    ELSE IF Head(ws).out_pin.node = id \/ Head(ws).in_pin.node = id
         THEN DropWires(Tail(ws), id)
         ELSE <<Head(ws)>> \o DropWires(Tail(ws), id)

\* The pins the viewer shows on a node, between which a wire is dragged.
HasOutPin(ns, out_pin) ==
    out_pin.node \in DOMAIN ns /\ out_pin.output < output_count(ns[out_pin.node].kind)

HasInPin(ns, in_pin) ==
    in_pin.node \in DOMAIN ns /\ in_pin.input < input_count(ns[in_pin.node].kind)

\* setup(): Graph::default().
InitEdit ==
    /\ nodes = [id \in {} |-> NewNode("Input")]
    /\ wires = <<>>
    /\ timer = InitTimer
    /\ ticks = 0
    /\ cache = EmptyCache
    /\ visits = NoVisits
    /\ status = "ok"
    /\ last = Call("init", 0, FALSE)

\* The part of a ui frame that follows an edit of the graph.  The memo of
\* the last refresh was dropped when Graph::tick returned; its record is
\* not carried over an edit.
AfterEdit ==
    /\ timer' = RateControl(timer, -1)
    /\ last' = Call("edit", 0, FALSE)
    /\ cache' = EmptyCache
    /\ visits' = NoVisits
    /\ UNCHANGED <<ticks, status>>

\* Node::graph_menu_item: "Add <variant>" is clicked.
InsertNode ==
    /\ status = "ok"
    /\ NodeIds \ DOMAIN nodes # {}
    /\ \E kind \in MenuKinds :
         LET id == VacantId(nodes) IN
         nodes' = [n \in DOMAIN nodes \cup {id} |->
                      IF n = id THEN NewNode(kind) ELSE nodes[n]]
    /\ UNCHANGED wires
    /\ AfterEdit

\* A wire is dragged from an output pin to an input pin.
Connect ==
    /\ status = "ok"
    /\ Len(wires) < MaxWires
    /\ \E from \in DOMAIN nodes, to \in DOMAIN nodes, input \in 0 .. 1 :
         LET w == Wire(from, to, input) IN
         /\ HasOutPin(nodes, w.out_pin)
         /\ HasInPin(nodes, w.in_pin)
         /\ \A i \in DOMAIN wires : wires[i] # w
         /\ \E at \in 1 .. Len(wires) + 1 : wires' = InsertWire(wires, w, at)
    /\ UNCHANGED nodes
    /\ AfterEdit

\* A wire is removed.
Disconnect ==
    /\ status = "ok"
    /\ \E k \in DOMAIN wires :
         wires' = [i \in 1 .. Len(wires) - 1 |-> IF i < k THEN wires[i] ELSE wires[i + 1]]
    /\ UNCHANGED nodes
    /\ AfterEdit

\* A node is removed, and with it the wires that touch it.
RemoveNode ==
    /\ status = "ok"
    /\ \E id \in DOMAIN nodes :
         /\ nodes' = [n \in DOMAIN nodes \ {id} |-> nodes[n]]
         /\ wires' = DropWires(wires, id)
    /\ AfterEdit

NextEdit == InsertNode \/ Connect \/ Disconnect \/ RemoveNode \/ Frame

SpecEdit == InitEdit /\ [][NextEdit]_vars

(***************************************************************************)
(* Reference semantics used by the properties.                             *)
(***************************************************************************)
G == Graph(nodes, wires)

WireSet(ws) == {ws[i] : i \in DOMAIN ws}

\* The nodes wired to a pin, as a set.
Sources(g, in_pin) == {w.out_pin.node : w \in {x \in WireSet(g.wires) : x.in_pin = in_pin}}

\* The nodes whose output feeds some pin of node n.
Feeders(g, n) == {w.out_pin.node : w \in {x \in WireSet(g.wires) : x.in_pin.node = n}}

RECURSIVE Ancestors(_, _, _)
Ancestors(g, frontier, seen) ==
    LET new == UNION {Feeders(g, n) : n \in frontier} \ seen
    IN IF new = {} THEN seen ELSE Ancestors(g, new, seen \cup new)

\* No node feeds, directly or transitively, one of its own pins.
Acyclic(g) == \A n \in DOMAIN g.nodes : n \notin Ancestors(g, {n}, {})

\* Direct substitution of the Input payloads and the Clock value through
\* the gates (defined on acyclic graphs).
RECURSIVE PinExpr(_, _, _)
RECURSIVE NodeExpr(_, _, _)
NodeExpr(g, n, t) ==
    LET k == g.nodes[n].kind
        p0 == PinExpr(g, InPinId(n, 0), t)
        p1 == PinExpr(g, InPinId(n, 1), t)
    IN CASE k = "Input" -> g.nodes[n].value
         [] k = "Clock" -> (t % 2 = 0)
         [] k = "Node" -> p0
         [] k = "Not" -> ~p0
         [] k = "And" -> (p0 /\ p1)
         [] k = "Or" -> (p0 \/ p1)
         [] k = "Xor" -> ((p0 /\ ~p1) \/ (~p0 /\ p1))
         [] k = "Nor" -> (~p0 /\ ~p1)
         [] k = "Xnor" -> (p0 <=> p1)
         [] k = "Nand" -> (~p0 \/ ~p1)
         [] OTHER -> FALSE

PinExpr(g, in_pin, t) == \E s \in Sources(g, in_pin) : NodeExpr(g, s, t)

OutputSet == {id \in DOMAIN nodes : nodes[id].kind = "Output"}

\* The state right after a fire whose refresh returned.
AfterFire == last.fired /\ status = "ok"

IsCircuit(c) == wires = c.wires /\ [id \in DOMAIN nodes |-> nodes[id].kind] = [id \in DOMAIN c.nodes |-> c.nodes[id].kind]

(***************************************************************************)
(* C1.  A single refresh started by Graph::tick terminates for every       *)
(* circuit graph, feedback cycles included: eval re-entered for a pin      *)
(* whose computation is in progress returns instead of recursing without   *)
(* bound.                                                                  *)
(***************************************************************************)
C1_RefreshTerminates == status # "overflow"

(***************************************************************************)
(* C2.  On an acyclic circuit the refresh at tick T returns and writes     *)
(* into each Output the result of substituting the Input payloads (and     *)
(* T % 2 = 0 for a Clock) through the gates feeding it; a buffer passes    *)
(* its input on, Not(Not(x)) is x, Nand(true, false) is true.              *)
(***************************************************************************)
C2_AcyclicSubstitution ==
    (last.fired /\ Acyclic(G)) =>
        /\ status = "ok"
        /\ \A o \in OutputSet : nodes[o].value = PinExpr(G, InPinId(o, 0), ticks)
        /\ IsCircuit(UnaryCircuit("Node")) => nodes[2].value = nodes[0].value
        /\ IsCircuit(NotNotCircuit) => nodes[3].value = nodes[0].value
        /\ (IsCircuit(BinaryCircuit("Nand")) /\ nodes[0].value /\ ~nodes[1].value)
               => nodes[3].value

C2_Witness ==
    /\ AfterFire
    /\ IsCircuit(BinaryCircuit("Nand"))
    /\ nodes[0].value /\ ~nodes[1].value /\ nodes[3].value

(***************************************************************************)
(* C3.  For the cross-coupled Nand pair observed through Outputs, every    *)
(* tick's refresh completes (and the Output payloads settle after a        *)
(* bounded number of ticks), for each constant (S, R).                     *)
(***************************************************************************)
C3_LatchRefreshCompletes ==
    (IsCircuit(LatchCircuit) /\ last.fired) => status = "ok"

(***************************************************************************)
(* C4.  The value eval returns for an input pin is the OR of the values of *)
(* the nodes wired to it: true exactly when some source's value is true,   *)
(* false for a pin without incoming wire; Inputs true and false on one pin *)
(* give true.                                                              *)
(***************************************************************************)
PinCached(in_pin) == <<in_pin, ticks>> \in DOMAIN cache

\* Every input pin of node n has a value in the refresh's cache.
NodeKnown(n) == \A i \in 0 .. input_count(nodes[n].kind) - 1 : PinCached(InPinId(n, i))

\* The output value of node n, from its payload or from the values the
\* refresh computed for its input pins.
NodeValue(n) ==
    LET k == nodes[n].kind
        v0 == cache[<<InPinId(n, 0), ticks>>]
        v1 == cache[<<InPinId(n, 1), ticks>>]
    IN CASE k = "Input" -> nodes[n].value
         [] k = "Clock" -> (ticks % 2 = 0)
         [] k = "Node" -> v0
         [] k = "Not" -> ~v0
         [] k = "And" -> (v0 /\ v1)
         [] k = "Or" -> (v0 \/ v1)
         [] k = "Xor" -> ((v0 /\ ~v1) \/ (~v0 /\ v1))
         [] k = "Nor" -> (~v0 /\ ~v1)
         [] k = "Xnor" -> (v0 <=> v1)
         [] k = "Nand" -> (~v0 \/ ~v1)
         [] OTHER -> FALSE

C4_FanInOr ==
    AfterFire =>
        /\ \A key \in DOMAIN cache :
             LET S == Sources(G, key[1]) IN
             /\ key[2] = ticks
             /\ cache[key] => \E s \in S : NodeKnown(s) /\ NodeValue(s)
             /\ ~cache[key] => \A s \in S : NodeKnown(s) /\ ~NodeValue(s)
             /\ Acyclic(G) => (cache[key] <=> PinExpr(G, key[1], ticks))
        /\ IsCircuit(FanInCircuit) =>
             (cache[<<InPinId(2, 0), ticks>>] <=> (nodes[0].value \/ nodes[1].value))

\* The second of two Inputs on one pin is the true one.
C4_Witness ==
    /\ AfterFire
    /\ IsCircuit(FanInCircuit)
    /\ ~nodes[0].value /\ nodes[1].value
    /\ cache[<<InPinId(2, 0), ticks>>]

(***************************************************************************)
(* C5.  A Clock's value during the refresh at tick T is T % 2 = 0, T being *)
(* the counter after the increment: an Output fed only by a Clock holds    *)
(* T % 2 = 0 after the refresh at tick T, and its payload after a refresh  *)
(* differs from its payload after the next refresh.                        *)
(***************************************************************************)
ClockFed(o) ==
    LET S == Sources(G, InPinId(o, 0))
    IN S # {} /\ \A s \in S : nodes[s].kind = "Clock"

ClockOutputs == {o \in OutputSet : ClockFed(o)}

C5_ClockParity ==
    /\ [](AfterFire => \A o \in ClockOutputs : nodes[o].value = (ticks % 2 = 0))
    /\ [][(AfterFire /\ AfterFire') =>
             \A o \in ClockOutputs : nodes'[o].value # nodes[o].value]_vars

\* Second refresh in a row of the Clock circuit.
C5_Witness ==
    /\ AfterFire
    /\ IsCircuit(ClockCircuit)
    /\ ticks = 2
    /\ nodes[1].value

(***************************************************************************)
(* C6.  Every fire of Graph::tick, by the timer or by Step, adds exactly 1 *)
(* to the tick counter and runs one refresh, also when the frame time      *)
(* spans several periods; a call that does not fire leaves the counter     *)
(* unchanged.  The counter never decreases and moves in steps of 1.        *)
(***************************************************************************)
TickCalled == last.op \in {"frame", "step"}

C6_TickByOne ==
    [][/\ ticks' \in {ticks, ticks + 1}
       /\ (TickCalled' /\ (last'.arg = 0 \/ timer'.finished)) =>
             (ticks' = ticks + 1 /\ last'.fired
              /\ (status' = "ok" => \A o \in OutputSet : PinCached(InPinId(o, 0))'))
       /\ (TickCalled' /\ ~(last'.arg = 0 \/ timer'.finished)) =>
             (ticks' = ticks /\ ~last'.fired /\ nodes' = nodes)
       /\ ~TickCalled' => ticks' = ticks]_vars

\* A frame of 25 units with a period of 10 units fired once.
C6_Witness ==
    /\ last = Call("frame", 25, TRUE)
    /\ timer.duration = 10
    /\ ticks = 1

(***************************************************************************)
(* C7.  While Paused, frame calls of Graph::tick never fire, whatever the  *)
(* period: the timer does not accumulate and the counter is frozen until a *)
(* Step or an unpause.  Each Step while Paused fires one tick at once.     *)
(***************************************************************************)
C7_PausedFreezes ==
    [][/\ (timer.paused /\ last'.op = "frame") =>
             (~last'.fired /\ ticks' = ticks /\ timer'.elapsed = timer.elapsed)
       /\ (timer.paused /\ timer'.paused /\ ticks' # ticks) => last'.op = "step"
       /\ last'.op = "step" =>
             (timer.paused /\ last'.fired /\ ticks' = ticks + 1
              /\ timer'.elapsed = timer.elapsed)]_vars

\* A frame while paused with period 0 did not fire.
C7_Witness ==
    /\ timer.paused
    /\ timer.duration = 0
    /\ last.op = "frame"
    /\ ~last.fired

(***************************************************************************)
(* C8.  Setting hz = 0 sets the period to 0, and from then on, while       *)
(* Running, every frame call of Graph::tick fires.                         *)
(***************************************************************************)
C8_ZeroHzEveryFrame ==
    [][/\ (last'.op = "rate" /\ last'.arg = 0) => timer'.duration = 0
       /\ (timer.duration = 0 /\ last'.op # "rate") => timer'.duration = 0
       /\ (timer.duration = 0 /\ ~timer.paused /\ last'.op = "frame") =>
             (last'.fired /\ ticks' = ticks + 1)]_vars

\* Two frames in a row fired at period 0.
C8_Witness ==
    /\ timer.duration = 0
    /\ ~timer.paused
    /\ last.op = "frame" /\ last.fired
    /\ ticks = 2

(***************************************************************************)
(* C9.  Cycle policy: eval re-entered at tick T for a pin whose evaluation *)
(* at T is in progress yields false for that pin, and the evaluation in    *)
(* progress completes using that false.                                    *)
(***************************************************************************)
RECURSIVE PolicyEval(_, _, _, _, _)
RECURSIVE PolicyAny(_, _, _, _, _, _)
RECURSIVE PolicyRemote(_, _, _, _, _)

\* The evaluator with the policy: [val, cache]; inprog is the set of pins
\* whose evaluation has started and not completed.
PolicyRemote(g, node, t, c, inprog) ==
    LET k == g.nodes[node].kind IN
    CASE k = "Input" -> [val |-> g.nodes[node].value, cache |-> c]
      [] k = "Clock" -> [val |-> (t % 2 = 0), cache |-> c]
      [] k \in UnaryKinds ->
           LET a == PolicyEval(g, InPinId(node, 0), t, c, inprog)
           IN [val |-> IF k = "Not" THEN ~a.val ELSE a.val, cache |-> a.cache]
      [] k \in BinaryKinds ->
           LET a == PolicyEval(g, InPinId(node, 0), t, c, inprog)
               b == PolicyEval(g, InPinId(node, 1), t, a.cache, inprog)
           IN [val |-> CASE k = "Nand" -> ~(a.val /\ b.val)
                         [] k = "And" -> (a.val /\ b.val)
                         [] k = "Or" -> (a.val \/ b.val)
                         [] k = "Xor" -> (a.val # b.val)
                         [] k = "Nor" -> ~(a.val \/ b.val)
                         [] k = "Xnor" -> (a.val = b.val),
               cache |-> b.cache]
      [] OTHER -> [val |-> FALSE, cache |-> c]

PolicyAny(g, remotes, i, t, c, inprog) ==
    IF i > Len(remotes) THEN [val |-> FALSE, cache |-> c]
    ELSE LET r == PolicyRemote(g, remotes[i], t, c, inprog)
         IN IF r.val THEN r ELSE PolicyAny(g, remotes, i + 1, t, r.cache, inprog)

PolicyEval(g, in_pin, t, c, inprog) ==
    IF <<in_pin, t>> \in DOMAIN c THEN [val |-> c[<<in_pin, t>>], cache |-> c]
    ELSE IF in_pin \in inprog THEN [val |-> FALSE, cache |-> c]
    ELSE LET r == PolicyAny(g, Remotes(g.wires, in_pin), 1, t, c, inprog \cup {in_pin})
         IN [val |-> r.val, cache |-> CacheInsert(r.cache, <<in_pin, t>>, r.val)]

\* The Output payloads a refresh under the policy leaves: [val, cache] per
\* Output, threading the cache through the Outputs in order.
RECURSIVE PolicyRefresh(_, _, _, _, _)
PolicyRefresh(g, outputs, i, t, c) ==
    IF i > Len(outputs) THEN [o \in {} |-> FALSE]
    ELSE LET r == PolicyEval(g, InPinId(outputs[i], 0), t, c, {})
         IN [o \in {outputs[j] : j \in i .. Len(outputs)} |->
               IF o = outputs[i] THEN r.val
               ELSE PolicyRefresh(g, outputs, i + 1, t, r.cache)[o]]

C9_CyclePolicy ==
    last.fired =>
        /\ status = "ok"
        /\ LET want == PolicyRefresh(G, OutputIds(nodes), 1, ticks, EmptyCache)
           IN \A o \in OutputSet : nodes[o].value = want[o]

(***************************************************************************)
(* C10.  Right after a fire at tick T the payload of every Output equals   *)
(* the value of its input pin 0 evaluated at tick T, whatever the payload  *)
(* was before: a payload set from outside is overwritten, an Output with   *)
(* no incoming wire is set to false.                                       *)
(***************************************************************************)
C10_OutputsRewritten ==
    AfterFire =>
        \A o \in OutputSet :
            /\ PinCached(InPinId(o, 0))
            /\ nodes[o].value = cache[<<InPinId(o, 0), ticks>>]
            /\ Sources(G, InPinId(o, 0)) = {} => ~nodes[o].value
            /\ Acyclic(G) => nodes[o].value = PinExpr(G, InPinId(o, 0), ticks)

\* After the refresh at tick 2 of the Clock circuit the wired Output holds
\* the Clock's value (true, unlike after tick 1) and the unwired Output
\* holds false.
C10_Witness ==
    /\ AfterFire
    /\ IsCircuit(ClockCircuit)
    /\ ticks = 2
    /\ cache[<<InPinId(1, 0), ticks>>] /\ nodes[1].value
    /\ ~nodes[2].value

(***************************************************************************)
(* C11.  Toggling the clock between Running and Paused changes neither the *)
(* tick counter nor the timer's accumulated time nor its period; the time  *)
(* accumulated before a pause is still there after the unpause.            *)
(***************************************************************************)
C11_ToggleKeepsTimer ==
    [][/\ last'.op = "pause" =>
             /\ timer'.paused = ~timer.paused
             /\ ticks' = ticks
             /\ timer'.elapsed = timer.elapsed
             /\ timer'.duration = timer.duration
       /\ (timer.paused /\ last'.op # "pause") =>
             (timer'.paused /\ timer'.elapsed = timer.elapsed
              /\ timer'.duration = timer.duration)]_vars

\* Unpaused with half a period accumulated before the pause.
C11_Witness ==
    /\ last.op = "pause"
    /\ ~timer.paused
    /\ timer.duration = 10
    /\ timer.elapsed = 5

(***************************************************************************)
(* C12.  The values a refresh writes into the Outputs are a function of    *)
(* the graph, the Input payloads at the time of the refresh and the tick's *)
(* parity only, whatever the Output payloads and the memo of earlier       *)
(* refreshes were: no memoized value outlives its refresh, and an Input    *)
(* changed between two fires shows in the next refresh.                    *)
(***************************************************************************)
\* The nodes with the Outputs in P holding true and the other Outputs false.
WithOutputs(ns, P) ==
    [id \in DOMAIN ns |->
        IF ns[id].kind = "Output" THEN [ns[id] EXCEPT !.value = (id \in P)] ELSE ns[id]]

OutputValues(ns) == [o \in {id \in DOMAIN ns : ns[id].kind = "Output"} |-> ns[o].value]

C12_RefreshDeterministic ==
    AfterFire =>
        /\ \A key \in DOMAIN cache : key[2] = ticks
        /\ \A P \in SUBSET OutputSet :
             LET r == RefreshLoop(Graph(WithOutputs(nodes, P), wires),
                                  OutputIds(nodes), 1, ticks + 2, EmptyCache, NoVisits)
             IN r.status = "ok" /\ OutputValues(r.nodes) = OutputValues(nodes)

\* Second refresh of the Not circuit, with the Input on.
C12_Witness ==
    /\ AfterFire
    /\ IsCircuit(UnaryCircuit("Not"))
    /\ ticks = 2
    /\ nodes[0].value /\ ~nodes[2].value

(***************************************************************************)
(* C13.  Within one refresh the sources of any input pin are evaluated at  *)
(* most once: the first request for a pin computes and memoizes it, every  *)
(* later request for that pin in the refresh is answered from the memo.    *)
(***************************************************************************)
C13_SourcesOnce == \A in_pin \in DOMAIN visits : visits[in_pin] <= 1

(***************************************************************************)
(* C14.  The outcome of a refresh does not depend on the order in which    *)
(* the sources of an input pin are visited: under any permutation of each  *)
(* pin's source list the refresh terminates exactly when it terminates     *)
(* under the other order, and writes the same Output values.               *)
(***************************************************************************)
RECURSIVE Reverse(_)
Reverse(sq) == IF sq = <<>> THEN <<>> ELSE Reverse(Tail(sq)) \o <<Head(sq)>>

\* The refresh of the same nodes at the same tick with every pin's source
\* list in the opposite order (no pin of the catalogue has more than two
\* sources, so this is every permutation).
C14_OrderIrrelevant ==
    last.fired =>
        LET alt == Refresh(Graph(nodes, Reverse(wires)), ticks)
        IN /\ (alt.status = "ok") <=> (status = "ok")
           /\ (alt.status = "ok" /\ status = "ok") =>
                  OutputValues(alt.nodes) = OutputValues(nodes)

(***************************************************************************)
(* C15.  A call of Graph::tick changes only the timer, the tick counter    *)
(* and the payloads of Output nodes: the Input payloads, the boolean of    *)
(* every other variant, the set of nodes and the connections stay as they  *)
(* were.  A call that does not fire changes nothing but the timer.         *)
(***************************************************************************)
C15_TickFrame ==
    [][TickCalled' =>
          /\ wires' = wires
          /\ DOMAIN nodes' = DOMAIN nodes
          /\ \A id \in DOMAIN nodes :
                /\ nodes'[id].kind = nodes[id].kind
                /\ nodes[id].kind # "Output" => nodes'[id].value = nodes[id].value
          /\ ~last'.fired => (nodes' = nodes /\ ticks' = ticks /\ status' = status)]_vars

\* A fire turned the Output of the Or circuit on and left the Inputs alone.
C15_Witness ==
    /\ AfterFire
    /\ IsCircuit(BinaryCircuit("Or"))
    /\ nodes[0].value /\ ~nodes[1].value /\ ~nodes[2].value /\ nodes[3].value

(***************************************************************************)
(* C16.  While the clock is Running a call of Graph::tick fires only if    *)
(* the timer's accumulated time has reached the period in that call; a     *)
(* fire that bypasses the timer (single-step) happens only while Paused.   *)
(***************************************************************************)
C16_FireNeedsTimer ==
    [][(TickCalled' /\ last'.fired) =>
          IF timer.paused
          THEN last'.op = "step" /\ last'.arg = 0
          ELSE /\ last'.op = "frame"
               /\ last'.arg > 0
               /\ timer.elapsed + last'.arg >= timer.duration
               /\ timer'.finished]_vars

\* Two frames of 5 units added up to the period of 10 units and fired.
C16_Witness ==
    /\ last = Call("frame", 5, TRUE)
    /\ ~timer.paused
    /\ timer.duration = 10
    /\ timer.elapsed = 0
    /\ ticks = 1

(***************************************************************************)
(* C17.  A refresh is atomic with respect to every other action: nothing   *)
(* external happens between the tick-counter increment of a fire and the   *)
(* last Output write of that fire, so all Output payloads a reader sees    *)
(* were computed at one tick from one graph and one set of Input payloads, *)
(* and the value written to one Output does not influence the value        *)
(* computed for another Output of the same refresh.                        *)
(***************************************************************************)
\* The value of Output o's pin evaluated on its own, from an empty memo.
AloneValue(ns, ws, o, t) == eval(Graph(ns, ws), InPinId(o, 0), t, EmptyCache, NoVisits, 0).val

C17_RefreshAtomic ==
    /\ [](AfterFire =>
            /\ \A key \in DOMAIN cache : key[2] = ticks
            /\ \A o \in OutputSet : \A P \in SUBSET OutputSet :
                  nodes[o].value = AloneValue(WithOutputs(nodes, P), wires, o, ticks))
    /\ [][/\ ticks' # ticks =>
                /\ TickCalled' /\ last'.fired
                /\ status' = "ok" =>
                      \A o \in OutputSet :
                          nodes'[o].value = AloneValue(nodes, wires, o, ticks')
          /\ ~TickCalled' => (ticks' = ticks /\ cache' = cache /\ status' = status)]_vars

\* Both Outputs of the shared circuit after the refresh at tick 2.
C17_Witness ==
    /\ AfterFire
    /\ IsCircuit(SharedCircuit)
    /\ ticks = 2
    /\ nodes[0].value /\ ~nodes[1].value
    /\ ~nodes[6].value /\ nodes[7].value

(***************************************************************************)
(* C18.  After any sequence of insert-node, connect, disconnect and        *)
(* remove-node operations in which a wire is only made from an existing    *)
(* output pin to an existing input pin, every wire has a source that is a  *)
(* live node other than an Output and a target input index below the       *)
(* target's input_count (Input and Clock nodes are never targets); eval    *)
(* never reaches its unreachable branch and never fails to find a source.  *)
(***************************************************************************)
C18_WiresWellFormed ==
    /\ \A i \in DOMAIN wires :
         LET w == wires[i] IN
         /\ w.out_pin.node \in DOMAIN nodes
         /\ nodes[w.out_pin.node].kind # "Output"
         /\ w.in_pin.node \in DOMAIN nodes
         /\ w.in_pin.input < input_count(nodes[w.in_pin.node].kind)
         /\ nodes[w.in_pin.node].kind \notin {"Input", "Clock"}
    /\ status # "panic"

\* A Not wired to an Output, refreshed: the Output shows the Not of nothing.
C18_Witness ==
    /\ AfterFire
    /\ DOMAIN nodes = {0, 1}
    /\ nodes[0].kind = "Not" /\ nodes[1].kind = "Output"
    /\ wires = <<Wire(0, 1, 0)>>
    /\ nodes[1].value

====
